---------------------------- MODULE Spec2Model ----------------------------
(***************************************************************************)
(* OTPGen: the andOTP import/export adapter (AppSupport::andOTP), its      *)
(* AES-GCM envelope (andOTP::encrypt / andOTP::decrypt) and the token      *)
(* model (OTPToken_Old).                                                   *)
(*                                                                         *)
(* A std::string is a sequence of bytes 0..255.  JSON text is ASCII.       *)
(***************************************************************************)
EXTENDS Integers, Sequences, FiniteSets, TLC

VARIABLES
    enc,        \* the last andOTP::encrypt call: arguments and outcome
    dec,        \* the andOTP::decrypt call made since that encrypt call, if any
    tok,        \* an OTPToken_Old object
    obs,        \* what the last OTPToken_Old call returned
    assertMode, \* what a failed RAPIDJSON_ASSERT does in this build
    running,    \* the process has not been aborted
    appTokens,  \* the token list handed to exportTokens
    targetList, \* the token list importTokens appends to
    exportFile, \* the file exportTokens writes
    exp,        \* the last exportTokens call: arguments and outcome
    imp         \* the importTokens call made since that export, if any

cryptoVars == <<enc, dec>>
tokenVars == <<tok, obs>>
andotpVars == <<assertMode, running, appTokens, targetList, exportFile, exp, imp>>
vars == <<enc, dec, tok, obs, assertMode, running, appTokens, targetList, exportFile, exp, imp>>

(***************************************************************************)
(* Bounds of the model.                                                    *)
(***************************************************************************)
MaxPlain == 2          \* longest plaintext handed to encrypt directly

(***************************************************************************)
(* Program constants.                                                      *)
(***************************************************************************)
ANDOTP_IV_SIZE == 12
ANDOTP_TAG_SIZE == 16
Byte == 256            \* a char holds 0..255
SHA256_DIGESTSIZE == 32

EmptyStr == <<>>

Min(a, b) == IF a < b THEN a ELSE b

\* std::string::substr(pos) / substr(pos, n), 0-based; pos > size() throws
substr(s, pos, n) == SubSeq(s, pos + 1, Min(Len(s), pos + n))

Last(s, n) == SubSeq(s, Len(s) - n + 1, Len(s))

(***************************************************************************)
(* Crypto++ primitives, as byte-level stand-ins that keep what the code    *)
(* relies on: a digest of fixed size, a keyed invertible stream            *)
(* transformation, and a keyed tag over IV and ciphertext.                 *)
(***************************************************************************)
\* a position-weighted checksum of s[lo..hi], summed by halves
RECURSIVE WSumRange(_, _, _)
WSumRange(s, lo, hi) ==
    IF lo > hi THEN 0
    ELSE IF lo = hi THEN (s[lo] * lo) % Byte
    ELSE LET mid == (lo + hi) \div 2
         IN  (WSumRange(s, lo, mid) + WSumRange(s, mid + 1, hi)) % Byte

WSum(s) == WSumRange(s, 1, Len(s))

\* CryptoPP::SHA256 through HashFilter into a StringSink
SHA256(msg) ==
    LET h == (WSum(msg) * 31 + Len(msg) * 7) % Byte
    IN  [j \in 1..SHA256_DIGESTSIZE |-> (h + 13 * j) % Byte]

\* andOTP::sha256_password
sha256_password(password) ==
    IF password = EmptyStr THEN password ELSE SHA256(password)

\* GCM<AES>::SetKeyWithIV accepts AES key lengths only; anything else throws
ValidKeyLength(key) == Len(key) \in {16, 24, 32}

KeyStream(key, iv) == (WSum(key) * 3 + WSum(iv) * 5 + 1) % Byte

GCM_Encrypt(key, iv, pt) ==
    LET k == KeyStream(key, iv)
    IN  [i \in 1..Len(pt) |-> (pt[i] + k + 11 * i) % Byte]

GCM_Decrypt(key, iv, ct) ==
    LET k == KeyStream(key, iv)
    IN  [i \in 1..Len(ct) |-> (ct[i] + 2 * Byte * Byte - k - 11 * i) % Byte]

GCM_Tag(key, iv, ct) ==
    LET t == (WSum(key) + 3 * WSum(iv) + 5 * WSum(ct) + Len(ct)) % Byte
    IN  [j \in 1..ANDOTP_TAG_SIZE |-> (t + 17 * j) % Byte]

(***************************************************************************)
(* andOTP::encrypt(password, buffer, encrypted).  iv is what the random    *)
(* pool delivered.  kdf / cipher record whether sha256_password and the    *)
(* cipher were reached.                                                    *)
(***************************************************************************)
encrypt_tooSmall(buffer) == buffer = EmptyStr

\* a slip: the IV stored after the message
encrypt_layout_ivLast(iv, ct, tag) == ct \o tag \o iv

\* encrypted.clear(); encrypted.append(iv); encrypted.append(enc_buf)
encrypt_layout(iv, ct, tag) == iv \o ct \o tag

encrypt(password, buffer, encrypted, iv) ==
    IF encrypt_tooSmall(buffer)
    THEN [result |-> FALSE, encrypted |-> encrypted, kdf |-> FALSE, cipher |-> FALSE]
    ELSE LET pwd == sha256_password(password)
         IN  IF ~ValidKeyLength(pwd)
             THEN \* SetKeyWithIV throws; catch (...) clears the output
                  [result |-> FALSE, encrypted |-> EmptyStr, kdf |-> TRUE, cipher |-> TRUE]
             ELSE LET ct  == GCM_Encrypt(pwd, iv, buffer)
                      tag == GCM_Tag(pwd, iv, ct)
                  IN  [result |-> TRUE, encrypted |-> encrypt_layout(iv, ct, tag),
                       kdf |-> TRUE, cipher |-> TRUE]

(***************************************************************************)
(* andOTP::decrypt(password, buffer, decrypted).  The filter is built      *)
(* with the flag MAC_AT_END alone, so THROW_EXCEPTION is not set: a tag    *)
(* mismatch raises nothing, and the StringSink has by then received the    *)
(* decrypted stream.  The sink appends to what decrypted already holds.    *)
(***************************************************************************)
\* a slip: the size check forgets the IV
decrypt_tooSmall_tagOnly(buffer) == Len(buffer) <= ANDOTP_TAG_SIZE

decrypt_tooSmall(buffer) == Len(buffer) <= ANDOTP_IV_SIZE + ANDOTP_TAG_SIZE

decrypt_iv(buffer) == substr(buffer, 0, ANDOTP_IV_SIZE)

decrypt_enc_buf(buffer) == substr(buffer, ANDOTP_IV_SIZE, Len(buffer))

\* AuthenticatedDecryptionFilter(MAC_AT_END, ANDOTP_TAG_SIZE): the tag is the tail
decrypt_tag(enc_buf) == Last(enc_buf, ANDOTP_TAG_SIZE)

\* a slip: the tag is not split off the stream
decrypt_ct_keepsTag(enc_buf) == enc_buf

decrypt_ct(enc_buf) == SubSeq(enc_buf, 1, Len(enc_buf) - ANDOTP_TAG_SIZE)

decrypt(password, buffer, decrypted) ==
    IF decrypt_tooSmall(buffer)
    THEN [result |-> FALSE, decrypted |-> decrypted, kdf |-> FALSE, cipher |-> FALSE,
          iv |-> EmptyStr, tag |-> EmptyStr]
    ELSE LET thrown == [result |-> FALSE, decrypted |-> EmptyStr, kdf |-> TRUE,
                        cipher |-> TRUE, iv |-> EmptyStr, tag |-> EmptyStr]
         IN  IF Len(buffer) < ANDOTP_IV_SIZE
             THEN \* substr(ANDOTP_IV_SIZE) throws std::out_of_range
                  [thrown EXCEPT !.kdf = FALSE, !.cipher = FALSE]
             ELSE LET iv      == decrypt_iv(buffer)
                      enc_buf == decrypt_enc_buf(buffer)
                      pwd     == sha256_password(password)
                  IN  IF ~ValidKeyLength(pwd) \/ Len(enc_buf) < ANDOTP_TAG_SIZE
                      THEN thrown
                      ELSE LET ct  == decrypt_ct(enc_buf)
                               tag == decrypt_tag(enc_buf)
                           IN  \* df.GetLastResult() is never consulted
                               [result |-> TRUE,
                                decrypted |-> decrypted \o GCM_Decrypt(pwd, iv, ct),
                                kdf |-> TRUE, cipher |-> TRUE, iv |-> iv, tag |-> tag]

(***************************************************************************)
(* Inputs of the direct encrypt / decrypt calls.                           *)
(***************************************************************************)
\* two plaintexts of every length up to MaxPlain
Plaintexts ==
    {[i \in 1..n |-> 65] : n \in 0..MaxPlain}
    \cup {[i \in 1..n |-> (65 + 135 * i) % Byte] : n \in 0..MaxPlain}

Passwords == {EmptyStr, <<112>>, <<113, 49>>}

IVs == {[i \in 1..ANDOTP_IV_SIZE |-> 0], [i \in 1..ANDOTP_IV_SIZE |-> (37 * i) % Byte]}

Priors == {EmptyStr, <<88>>}

Fill(n) == [i \in 1..n |-> 7]

NoCall == [called |-> FALSE]

\* buffers handed to decrypt: what encrypt produced, that buffer cut short or
\* altered, and buffers around the size limit
DecryptBuffers ==
    {Fill(n) : n \in {0, ANDOTP_IV_SIZE - 1, ANDOTP_IV_SIZE + ANDOTP_TAG_SIZE - 1,
                      ANDOTP_IV_SIZE + ANDOTP_TAG_SIZE,
                      ANDOTP_IV_SIZE + ANDOTP_TAG_SIZE + 1}}
    \cup (IF enc.called /\ enc.result
          THEN {enc.encrypted,
                SubSeq(enc.encrypted, 1, Len(enc.encrypted) - 1),
                [enc.encrypted EXCEPT ![Len(enc.encrypted)] = (@ + 1) % Byte]}
          ELSE {})

Encrypt ==
    \E password \in Passwords, buffer \in Plaintexts, before \in Priors, iv \in IVs :
        /\ enc' = [called |-> TRUE, password |-> password, buffer |-> buffer,
                   before |-> before, iv |-> iv]
                  @@ encrypt(password, buffer, before, iv)
        /\ dec' = NoCall
        /\ UNCHANGED <<tokenVars, andotpVars>>

Decrypt ==
    \E password \in Passwords, buffer \in DecryptBuffers, before \in Priors :
        /\ dec' = [called |-> TRUE, password |-> password, buffer |-> buffer,
                   before |-> before]
                  @@ decrypt(password, buffer, before)
        /\ UNCHANGED <<enc, tokenVars, andotpVars>>

\* nothing has been called yet
Idle ==
    /\ enc = NoCall
    /\ dec = NoCall
    /\ tok = [constructed |-> FALSE]
    /\ obs = [op |-> "none"]
    /\ running = TRUE
    /\ appTokens = <<>>
    /\ targetList = <<>>
    /\ exportFile = [exists |-> FALSE, content |-> EmptyStr]
    /\ exp = NoCall
    /\ imp = NoCall

InitCrypto == Idle /\ assertMode = "throw"

NextCrypto == Encrypt \/ Decrypt

SpecCrypto == InitCrypto /\ [][NextCrypto]_vars

(***************************************************************************)
(* Claims about encrypt / decrypt, checked under SpecCrypto.               *)
(***************************************************************************)

\* C3: for every non-empty plaintext and non-empty password encrypt succeeds,
\* and decrypt with the same password on the buffer encrypt produced, into an
\* initially empty output string, succeeds and yields exactly the plaintext,
\* whatever IV was drawn.
Thm_C3_RoundTrip ==
    /\ (enc.called /\ enc.buffer # EmptyStr /\ enc.password # EmptyStr) => enc.result
    /\ (/\ enc.called /\ enc.result
        /\ dec.called
        /\ dec.buffer = enc.encrypted
        /\ dec.password = enc.password
        /\ dec.before = EmptyStr)
       => (dec.result /\ dec.decrypted = enc.buffer)

Wit_C3_RoundTrip ==
    /\ enc.called /\ enc.result
    /\ Len(enc.buffer) = MaxPlain /\ enc.buffer[1] # enc.buffer[MaxPlain]
    /\ enc.iv[1] # 0
    /\ dec.called /\ dec.buffer = enc.encrypted /\ dec.password = enc.password
    /\ dec.before = EmptyStr
    /\ dec.result /\ dec.decrypted = enc.buffer

\* C4 (as claimed): whenever encrypt or decrypt returns false, its output
\* string is empty on return, whatever it held before the call.
Cex_C4_FailureClearsOutput ==
    /\ (enc.called /\ ~enc.result) => enc.encrypted = EmptyStr
    /\ (dec.called /\ ~dec.result) => dec.decrypted = EmptyStr

\* C5: encrypt returns false for an empty plaintext and decrypt returns false
\* for every buffer shorter than IV size + tag size (28), in both cases before
\* any key derivation or cipher step.
Thm_C5_SizeChecksFirst ==
    /\ (enc.called /\ enc.buffer = EmptyStr)
       => (~enc.result /\ ~enc.kdf /\ ~enc.cipher)
    /\ (dec.called /\ Len(dec.buffer) < ANDOTP_IV_SIZE + ANDOTP_TAG_SIZE)
       => (~dec.result /\ ~dec.kdf /\ ~dec.cipher)

Wit_C5_SizeChecksFirst ==
    /\ enc.called /\ enc.buffer = EmptyStr /\ ~enc.result
    /\ dec.called /\ Len(dec.buffer) = ANDOTP_IV_SIZE + ANDOTP_TAG_SIZE - 1
    /\ ~dec.result

\* C6: a buffer encrypt produced is IV (12 bytes), ciphertext, tag (16 bytes)
\* and nothing else, so it is 28 bytes longer than the plaintext and passes
\* decrypt's size check; decrypt reads bytes 0..11 as the IV and the last 16
\* bytes as the tag, so on encrypt's buffer it recovers encrypt's IV and tag.
Thm_C6_Layout ==
    /\ (enc.called /\ enc.result) =>
          LET key == sha256_password(enc.password)
              n   == Len(enc.buffer)
              ct  == SubSeq(enc.encrypted, ANDOTP_IV_SIZE + 1, ANDOTP_IV_SIZE + n)
          IN  /\ Len(enc.encrypted) = n + ANDOTP_IV_SIZE + ANDOTP_TAG_SIZE
              /\ SubSeq(enc.encrypted, 1, ANDOTP_IV_SIZE) = enc.iv
              /\ ct = GCM_Encrypt(key, enc.iv, enc.buffer)
              /\ Last(enc.encrypted, ANDOTP_TAG_SIZE) = GCM_Tag(key, enc.iv, ct)
              /\ ~decrypt_tooSmall(enc.encrypted)
    /\ (dec.called /\ dec.result) =>
          /\ dec.iv = SubSeq(dec.buffer, 1, ANDOTP_IV_SIZE)
          /\ dec.tag = Last(dec.buffer, ANDOTP_TAG_SIZE)
    /\ (enc.called /\ enc.result /\ dec.called /\ dec.buffer = enc.encrypted) =>
          /\ dec.kdf
          /\ dec.password # EmptyStr =>
                /\ dec.iv = enc.iv
                /\ dec.tag = Last(enc.encrypted, ANDOTP_TAG_SIZE)
                /\ (dec.password = enc.password =>
                        dec.tag = GCM_Tag(sha256_password(dec.password), dec.iv,
                                          decrypt_ct(decrypt_enc_buf(dec.buffer))))

Wit_C6_Layout ==
    /\ enc.called /\ enc.result /\ Len(enc.buffer) = MaxPlain
    /\ dec.called /\ dec.buffer = enc.encrypted /\ dec.result
    /\ dec.password = enc.password
    /\ dec.iv = enc.iv /\ enc.iv[1] # 0


(***************************************************************************)
(* OTPToken_Old.  The object carries the fields its methods read; algoArg  *)
(* remembers the string the last setAlgorithm(string) call was given.      *)
(***************************************************************************)
min_period == 1
max_period == 120
TM_SEC_MAX == 59       \* tm_sec of a minute without leap second

ShaAlgorithm == {"SHA1", "SHA256", "SHA512", "Invalid"}

S_SHA1 == <<83, 72, 65, 49>>
S_SHA256 == <<83, 72, 65, 50, 53, 54>>
S_SHA512 == <<83, 72, 65, 53, 49, 50>>
S_invalid == <<40, 105, 110, 118, 97, 108, 105, 100, 41>>

\* std::toupper in the "C" locale
toupper(c) == IF c >= 97 /\ c <= 122 THEN c - 32 ELSE c

ToUpperStr(s) == [i \in 1..Len(s) |-> toupper(s[i])]

\* OTPToken_Old::setAlgorithm(const std::string &): the enum it selects
AlgorithmOfName(_algo) ==
    LET algo == ToUpperStr(_algo)
    IN  IF algo = S_SHA1 THEN "SHA1"
        ELSE IF algo = S_SHA256 THEN "SHA256"
        ELSE IF algo = S_SHA512 THEN "SHA512"
        ELSE "Invalid"

\* OTPToken_Old::setAlgorithm(const ShaAlgorithm &), declared in the header
setAlgorithmEnum(t, algo) == [t EXCEPT !._algorithm = algo]

\* OTPToken_Old::algorithmString
algorithmString(t) ==
    CASE t._algorithm = "SHA1"   -> S_SHA1
      [] t._algorithm = "SHA256" -> S_SHA256
      [] t._algorithm = "SHA512" -> S_SHA512
      [] OTHER                   -> S_invalid

\* OTPToken_Old::valid
valid(t) == ~(t._label = EmptyStr /\ t._secret = EmptyStr)

\* OTPToken_Old::remainingTokenValidity, tm_sec being the local second
remainingTokenValidity(t, tm_sec) ==
    IF t._period = 0 THEN 0
    ELSE LET sec_expired    == tm_sec
             token_validity == t._period - sec_expired
         IN  IF token_validity < 0
             THEN (t._period - (sec_expired % t._period)) + 1
             ELSE token_validity + 1

Labels == {EmptyStr, <<97>>}
Secrets == {EmptyStr, <<65>>}
AlgorithmNames == {S_SHA1, <<115, 104, 97, 49>>, S_SHA256, S_SHA512, <<77, 68, 53>>, EmptyStr}
Periods == {0, min_period, 10, 30, TM_SEC_MAX + 1, max_period}
NoArg == <<0>>

\* OTPToken_Old(const Label &): _label is set, the strings start empty, the
\* scalar members are left unset and hold whatever the storage held
Construct ==
    \E label \in Labels, period \in Periods, algorithm \in ShaAlgorithm :
        /\ tok' = [constructed |-> TRUE, _label |-> label, _secret |-> EmptyStr,
                   _period |-> period, _algorithm |-> algorithm, algoArg |-> NoArg]
        /\ obs' = [op |-> "construct"]
        /\ UNCHANGED <<cryptoVars, andotpVars>>

\* setSecret, declared in the header
SetSecret ==
    \E secret \in Secrets :
        /\ tok.constructed
        /\ tok' = [tok EXCEPT !._secret = secret]
        /\ obs' = [op |-> "setSecret"]
        /\ UNCHANGED <<cryptoVars, andotpVars>>

\* setPeriod, declared in the header: the validated range is min_period..max_period
SetPeriod ==
    \E period \in Periods :
        /\ tok.constructed
        /\ tok' = IF period >= min_period /\ period <= max_period
                  THEN [tok EXCEPT !._period = period] ELSE tok
        /\ obs' = [op |-> "setPeriod"]
        /\ UNCHANGED <<cryptoVars, andotpVars>>

SetAlgorithm ==
    \E _algo \in AlgorithmNames :
        /\ tok.constructed
        /\ tok' = [setAlgorithmEnum(tok, AlgorithmOfName(_algo)) EXCEPT !.algoArg = _algo]
        /\ obs' = [op |-> "setAlgorithm"]
        /\ UNCHANGED <<cryptoVars, andotpVars>>

Valid ==
    /\ tok.constructed
    /\ obs' = [op |-> "valid", ret |-> valid(tok)]
    /\ UNCHANGED <<cryptoVars, tok, andotpVars>>

AlgorithmString ==
    /\ tok.constructed
    /\ obs' = [op |-> "algorithmString", ret |-> algorithmString(tok)]
    /\ UNCHANGED <<cryptoVars, tok, andotpVars>>

RemainingTokenValidity ==
    \E tm_sec \in 0..TM_SEC_MAX :
        /\ tok.constructed
        /\ obs' = [op |-> "remainingTokenValidity", tm_sec |-> tm_sec,
                   ret |-> remainingTokenValidity(tok, tm_sec)]
        /\ UNCHANGED <<cryptoVars, tok, andotpVars>>

InitToken == InitCrypto

NextToken ==
    \/ Construct
    \/ SetSecret
    \/ SetPeriod
    \/ SetAlgorithm
    \/ Valid
    \/ AlgorithmString
    \/ RemainingTokenValidity

SpecToken == InitToken /\ [][NextToken]_vars

(***************************************************************************)
(* Claims about OTPToken_Old, checked under SpecToken.                     *)
(***************************************************************************)
AcceptedName(name) == ToUpperStr(name) \in {S_SHA1, S_SHA256, S_SHA512}

\* C7 (as claimed): after setAlgorithm is given a string that is none of SHA1,
\* SHA256, SHA512 (case-insensitively), the algorithm is Invalid and valid()
\* returns false until a later setAlgorithm call supplies an accepted name.
Cex_C7_InvalidAlgorithmNotValid ==
    (tok.constructed /\ tok.algoArg # NoArg /\ ~AcceptedName(tok.algoArg)) =>
        /\ tok._algorithm = "Invalid"
        /\ obs.op = "valid" => obs.ret = FALSE

\* C9 (as claimed): remainingTokenValidity returns 0 when period is 0, and for
\* a period in 1..120 and a second s in 0..59 it returns period - (s mod period),
\* a value in 1..period.
Cex_C9_RemainingValidity ==
    obs.op = "remainingTokenValidity" =>
        IF tok._period = 0 THEN obs.ret = 0
        ELSE /\ obs.ret = tok._period - (obs.tm_sec % tok._period)
             /\ obs.ret \in 1..tok._period

(***************************************************************************)
(* JSON (rapidjson).  A value is a record: kind k, string bytes s, number  *)
(* n, and a, the elements of an array or the members of an object.  The    *)
(* text grammar covered is arrays, objects, strings with the escapes       *)
(* \" \\ \/ and unsigned integers, with insignificant whitespace.          *)
(***************************************************************************)
JNull == [k |-> "null", s |-> <<>>, n |-> 0, a |-> <<>>]
JStr(str) == [k |-> "str", s |-> str, n |-> 0, a |-> <<>>]
JNum(num) == [k |-> "num", s |-> <<>>, n |-> num, a |-> <<>>]
JArr(items) == [k |-> "arr", s |-> <<>>, n |-> 0, a |-> items]
JObj(members) == [k |-> "obj", s |-> <<>>, n |-> 0, a |-> members]
Mem(name, value) == [name |-> name, value |-> value]

\* std::string::c_str() read back as a C string: the bytes before the first NUL
c_str(str) ==
    LET nul == {i \in 1..Len(str) : str[i] = 0}
    IN  IF nul = {} THEN str
        ELSE SubSeq(str, 1, (CHOOSE i \in nul : \A j \in nul : i <= j) - 1)

\* Writer::WriteUint
RECURSIVE WriteUint(_)
WriteUint(num) ==
    IF num < 10 THEN <<48 + num>> ELSE Append(WriteUint(num \div 10), 48 + (num % 10))

\* Writer::WriteString: quotation mark and reverse solidus are escaped
RECURSIVE WriteChars(_, _)
WriteChars(str, i) ==
    IF i > Len(str) THEN <<>>
    ELSE (IF str[i] \in {34, 92} THEN <<92, str[i]>> ELSE <<str[i]>>)
         \o WriteChars(str, i + 1)

WriteString(str) == <<34>> \o WriteChars(str, 1) \o <<34>>

\* Document::Accept(Writer): no whitespace, members in insertion order
RECURSIVE WriteValue(_), WriteItems(_, _), WriteMembers(_, _)
WriteValue(v) ==
    CASE v.k = "str" -> WriteString(v.s)
      [] v.k = "num" -> WriteUint(v.n)
      [] v.k = "arr" -> <<91>> \o WriteItems(v.a, 1) \o <<93>>
      [] v.k = "obj" -> <<123>> \o WriteMembers(v.a, 1) \o <<125>>
      [] OTHER       -> <<110, 117, 108, 108>>

WriteItems(items, i) ==
    IF i > Len(items) THEN <<>>
    ELSE (IF i > 1 THEN <<44>> ELSE <<>>) \o WriteValue(items[i]) \o WriteItems(items, i + 1)

WriteMembers(members, i) ==
    IF i > Len(members) THEN <<>>
    ELSE (IF i > 1 THEN <<44>> ELSE <<>>)
         \o WriteString(members[i].name) \o <<58>> \o WriteValue(members[i].value)
         \o WriteMembers(members, i + 1)

\* Reader: the outcome of parsing from position i
ParseFail == [ok |-> FALSE, v |-> JNull, i |-> 0]
ParseOk(v, i) == [ok |-> TRUE, v |-> v, i |-> i]

RECURSIVE SkipWhitespace(_, _)
SkipWhitespace(txt, i) ==
    IF i <= Len(txt) /\ txt[i] \in {32, 10, 13, 9} THEN SkipWhitespace(txt, i + 1) ELSE i

At(txt, i, c) == i <= Len(txt) /\ txt[i] = c

RECURSIVE ScanString(_, _, _)
ScanString(txt, i, acc) ==
    IF i > Len(txt) THEN ParseFail
    ELSE IF txt[i] = 34 THEN ParseOk(JStr(acc), i + 1)
    ELSE IF txt[i] = 92
         THEN IF i + 1 <= Len(txt) /\ txt[i + 1] \in {34, 92, 47}
              THEN ScanString(txt, i + 2, Append(acc, txt[i + 1]))
              ELSE ParseFail
    ELSE IF txt[i] < 32 THEN ParseFail
    ELSE ScanString(txt, i + 1, Append(acc, txt[i]))

IsDigit(c) == c >= 48 /\ c <= 57

RECURSIVE ScanDigits(_, _, _)
ScanDigits(txt, i, acc) ==
    IF i <= Len(txt) /\ IsDigit(txt[i])
    THEN ScanDigits(txt, i + 1, acc * 10 + (txt[i] - 48))
    ELSE ParseOk(JNum(acc), i)

ParseNumber(txt, i) ==
    IF txt[i] = 48 THEN ParseOk(JNum(0), i + 1) ELSE ScanDigits(txt, i, 0)

RECURSIVE ParseValue(_, _), ParseElements(_, _, _), ParseObjectMembers(_, _, _)
ParseValue(txt, i0) ==
    LET i == SkipWhitespace(txt, i0)
    IN  IF i > Len(txt) THEN ParseFail
        ELSE IF txt[i] = 34 THEN ScanString(txt, i + 1, <<>>)
        ELSE IF IsDigit(txt[i]) THEN ParseNumber(txt, i)
        ELSE IF txt[i] = 91
             THEN LET j == SkipWhitespace(txt, i + 1)
                  IN  IF At(txt, j, 93) THEN ParseOk(JArr(<<>>), j + 1)
                      ELSE ParseElements(txt, j, <<>>)
        ELSE IF txt[i] = 123
             THEN LET j == SkipWhitespace(txt, i + 1)
                  IN  IF At(txt, j, 125) THEN ParseOk(JObj(<<>>), j + 1)
                      ELSE ParseObjectMembers(txt, j, <<>>)
        ELSE ParseFail

ParseElements(txt, i, acc) ==
    LET e == ParseValue(txt, i)
    IN  IF ~e.ok THEN ParseFail
        ELSE LET j == SkipWhitespace(txt, e.i)
             IN  IF At(txt, j, 44) THEN ParseElements(txt, j + 1, Append(acc, e.v))
                 ELSE IF At(txt, j, 93) THEN ParseOk(JArr(Append(acc, e.v)), j + 1)
                 ELSE ParseFail

ParseObjectMembers(txt, i0, acc) ==
    LET i == SkipWhitespace(txt, i0)
    IN  IF ~At(txt, i, 34) THEN ParseFail
        ELSE LET name == ScanString(txt, i + 1, <<>>)
             IN  IF ~name.ok THEN ParseFail
                 ELSE LET c == SkipWhitespace(txt, name.i)
                      IN  IF ~At(txt, c, 58) THEN ParseFail
                          ELSE LET e == ParseValue(txt, c + 1)
                               IN  IF ~e.ok THEN ParseFail
                                   ELSE LET j   == SkipWhitespace(txt, e.i)
                                            all == Append(acc, Mem(name.v.s, e.v))
                                        IN  IF At(txt, j, 44)
                                            THEN ParseObjectMembers(txt, j + 1, all)
                                            ELSE IF At(txt, j, 125)
                                                 THEN ParseOk(JObj(all), j + 1)
                                                 ELSE ParseFail

\* Document::ParseStream on StringStream(out.c_str()): the document stays Null
\* on any parse error, trailing text after the root included
ParseStream(out) ==
    LET txt == c_str(out)
        r   == ParseValue(txt, 1)
    IN  IF r.ok /\ SkipWhitespace(txt, r.i) = Len(txt) + 1 THEN r.v ELSE JNull

(***************************************************************************)
(* OTPToken, the record andOTP creates and reads.  Its class is declared   *)
(* outside the files at hand; constructor defaults, setters and getters    *)
(* follow the data model: whole-field setters, digits in 3..10, period in  *)
(* 1..120.                                                                 *)
(***************************************************************************)
min_digits == 3
max_digits == 10

S_secret == <<115, 101, 99, 114, 101, 116>>
S_label == <<108, 97, 98, 101, 108>>
S_period == <<112, 101, 114, 105, 111, 100>>
S_digits == <<100, 105, 103, 105, 116, 115>>
S_type == <<116, 121, 112, 101>>
S_algorithm == <<97, 108, 103, 111, 114, 105, 116, 104, 109>>
S_counter == <<99, 111, 117, 110, 116, 101, 114>>
S_thumbnail == <<116, 104, 117, 109, 98, 110, 97, 105, 108>>
S_last_used == <<108, 97, 115, 116, 95, 117, 115, 101, 100>>
S_tags == <<116, 97, 103, 115>>
S_TOTP == <<84, 79, 84, 80>>
S_HOTP == <<72, 79, 84, 80>>
S_STEAM == <<83, 84, 69, 65, 77>>
S_Default == <<68, 101, 102, 97, 117, 108, 116>>

OTPToken_new(type) ==
    [type |-> type, secret |-> EmptyStr, label |-> EmptyStr,
     digits |-> IF type = "Steam" THEN 5 ELSE 6, period |-> 30, counter |-> 0,
     algorithm |-> "SHA1"]

OTPToken_setSecret(t, secret) == [t EXCEPT !.secret = secret]
OTPToken_setLabel(t, label) == [t EXCEPT !.label = label]
OTPToken_setPeriod(t, period) ==
    IF period >= min_period /\ period <= max_period THEN [t EXCEPT !.period = period] ELSE t
OTPToken_setDigitLength(t, digits) ==
    IF digits >= min_digits /\ digits <= max_digits THEN [t EXCEPT !.digits = digits] ELSE t
OTPToken_setCounter(t, counter) == [t EXCEPT !.counter = counter]
OTPToken_setAlgorithm(t, name) == [t EXCEPT !.algorithm = AlgorithmOfName(name)]
OTPToken_algorithmName(t) == algorithmString([_algorithm |-> t.algorithm])

(***************************************************************************)
(* rapidjson accessors.  A failed RAPIDJSON_ASSERT is what the build makes *)
(* of it: an exception where the assertion macro throws, a process abort   *)
(* where it is assert().                                                   *)
(***************************************************************************)
Builds == {"throw", "abort"}

\* Value::HasMember (on an object)
HasMember(elem, name) == \E i \in 1..Len(elem.a) : elem.a[i].name = name

\* Value::operator[](name): the first member of that name
MemberValue(elem, name) ==
    elem.a[CHOOSE i \in 1..Len(elem.a) :
               /\ elem.a[i].name = name
               /\ \A j \in 1..(i - 1) : elem.a[j].name # name].value

\* elem[name].GetString() passes its assertions
ReadsString(elem, name) == HasMember(elem, name) /\ MemberValue(elem, name).k = "str"

\* elem[name].GetUint() passes its assertions (the numbers of the modelled
\* documents all fit an unsigned)
ReadsUint(elem, name) == HasMember(elem, name) /\ MemberValue(elem, name).k = "num"

GetString(elem, name) == c_str(MemberValue(elem, name).s)
GetUint(elem, name) == MemberValue(elem, name).n

(***************************************************************************)
(* andOTP::importTokens, one array element: st is "push" (a token was      *)
(* appended), "skip" (continue), "throw" (an exception left the loop) or   *)
(* "abort".                                                                *)
(***************************************************************************)
NoToken == OTPToken_new("None")

\* the check that the element has all andOTP members
importElement_hasMembers(elem) ==
    HasMember(elem, S_type) /\ HasMember(elem, S_secret) /\ HasMember(elem, S_label)

\* an assertion failing inside the inner try block
InnerAssert(build) ==
    [st |-> IF build = "throw" THEN "skip" ELSE "abort", tok |-> NoToken]

importElement(elem, build) ==
    IF elem.k # "obj"
    THEN \* HasMember asserts IsObject(), outside the inner try block
         [st |-> build, tok |-> NoToken]
    ELSE IF ~importElement_hasMembers(elem) THEN [st |-> "skip", tok |-> NoToken]
    ELSE IF ~ReadsString(elem, S_type) THEN InnerAssert(build)
    ELSE LET typeStr == GetString(elem, S_type)
             named   == ReadsString(elem, S_secret) /\ ReadsString(elem, S_label)
             base(type) ==
                 OTPToken_setLabel(
                     OTPToken_setSecret(OTPToken_new(type), GetString(elem, S_secret)),
                     GetString(elem, S_label))
             rest(t) ==
                 OTPToken_setAlgorithm(
                     OTPToken_setDigitLength(t, GetUint(elem, S_digits) % Byte),
                     GetString(elem, S_algorithm))
         IN  IF typeStr = S_TOTP
             THEN IF named /\ ReadsUint(elem, S_period) /\ ReadsUint(elem, S_digits)
                     /\ ReadsString(elem, S_algorithm)
                  THEN [st |-> "push",
                        tok |-> rest(OTPToken_setPeriod(base("TOTP"), GetUint(elem, S_period)))]
                  ELSE InnerAssert(build)
             ELSE IF typeStr = S_HOTP
             THEN IF named /\ ReadsUint(elem, S_counter) /\ ReadsUint(elem, S_digits)
                     /\ ReadsString(elem, S_algorithm)
                  THEN [st |-> "push",
                        tok |-> rest(OTPToken_setCounter(base("HOTP"), GetUint(elem, S_counter)))]
                  ELSE InnerAssert(build)
             ELSE IF typeStr = S_STEAM
             THEN IF named THEN [st |-> "push", tok |-> base("Steam")]
                  ELSE InnerAssert(build)
             ELSE [st |-> "skip", tok |-> NoToken]

\* the loop over the array; the result is "true", "false" or "abort"
RECURSIVE importLoop(_, _, _, _)
importLoop(array, i, target, build) ==
    IF i > Len(array) THEN [ret |-> "true", target |-> target]
    ELSE LET e == importElement(array[i], build)
         IN  CASE e.st = "push"  -> importLoop(array, i + 1, Append(target, e.tok), build)
               [] e.st = "skip"  -> importLoop(array, i + 1, target, build)
               [] e.st = "throw" -> [ret |-> "false", target |-> target]
               [] OTHER          -> [ret |-> "abort", target |-> target]

\* TokenDatabase::readFile: a file that exists and can be read yields its bytes
NoFile == [exists |-> FALSE, content |-> EmptyStr]
File(content) == [exists |-> TRUE, content |-> content]

\* andOTP::importTokens; out is the text handed to the parser, when one was
importTokens(file, target, type, password, build) ==
    LET failed == [ret |-> "false", target |-> target, parsed |-> FALSE, out |-> EmptyStr]
    IN  IF ~file.exists THEN failed
        ELSE IF file.content = EmptyStr THEN failed
        ELSE LET d == IF type = "Encrypted"
                      THEN decrypt(password, file.content, EmptyStr)
                      ELSE [result |-> TRUE, decrypted |-> file.content]
             IN  IF ~d.result THEN failed
                 ELSE LET json == ParseStream(d.decrypted)
                      IN  IF json.k # "arr"
                          THEN [failed EXCEPT !.parsed = TRUE, !.out = d.decrypted]
                          ELSE importLoop(json.a, 1, target, build)
                               @@ [parsed |-> TRUE, out |-> d.decrypted]

(***************************************************************************)
(* andOTP::exportTokens                                                    *)
(***************************************************************************)
exportType(token) ==
    IF token.type = "HOTP" THEN S_HOTP
    ELSE IF token.type = "Steam" THEN S_STEAM
    ELSE S_TOTP

\* a slip: the stored digit length is written for Steam tokens too
exportDigits_stored(token) == token.digits

exportDigits(token) == IF token.type = "Steam" THEN 5 ELSE token.digits

exportAlgorithm(token) ==
    IF token.type = "Steam" THEN S_SHA1 ELSE c_str(OTPToken_algorithmName(token))

exportElement(token) ==
    JObj(<<Mem(S_secret, JStr(c_str(token.secret))),
           Mem(S_label, JStr(c_str(token.label))),
           Mem(S_period, JNum(token.period)),
           Mem(S_digits, JNum(exportDigits(token))),
           Mem(S_type, JStr(exportType(token))),
           Mem(S_algorithm, JStr(exportAlgorithm(token))),
           Mem(S_thumbnail, JStr(S_Default)),
           Mem(S_last_used, JNum(0)),
           Mem(S_tags, JArr(<<>>))>>)

\* TokenDatabase::writeFile either stores the bytes or fails and stores nothing
exportTokens(disk, tokens, type, password, iv, writable) ==
    LET json == JArr([i \in 1..Len(tokens) |-> exportElement(tokens[i])])
        text == c_str(WriteValue(json))
        base == [ret |-> FALSE, disk |-> disk, tokens |-> tokens, text |-> text]
    IN  IF type = "PlainText"
        THEN IF writable THEN [base EXCEPT !.ret = TRUE, !.disk = File(text)] ELSE base
        ELSE LET e == encrypt(password, text, EmptyStr, iv)
             IN  IF ~e.result THEN base
                 ELSE IF writable
                      THEN [base EXCEPT !.ret = TRUE, !.disk = File(e.encrypted)]
                      ELSE base

(***************************************************************************)
(* Importing documents that come from elsewhere.                           *)
(***************************************************************************)
MaxTarget == 3         \* longest target list an import may leave

Obj3(type, secret, label) ==
    <<Mem(S_type, type), Mem(S_secret, secret), Mem(S_label, label)>>

E_totp ==
    JObj(<<Mem(S_secret, JStr(<<65>>)), Mem(S_label, JStr(<<97>>)), Mem(S_period, JNum(60)),
           Mem(S_digits, JNum(8)), Mem(S_type, JStr(S_TOTP)), Mem(S_algorithm, JStr(S_SHA256))>>)
E_hotp ==
    JObj(Obj3(JStr(S_HOTP), JStr(<<66>>), JStr(<<98>>))
         \o <<Mem(S_counter, JNum(5)), Mem(S_digits, JNum(6)),
              Mem(S_algorithm, JStr(<<115, 104, 97, 49>>))>>)
E_steam == JObj(Obj3(JStr(S_STEAM), JStr(<<67>>), JStr(<<99>>)))
E_noSecret ==
    JObj(<<Mem(S_label, JStr(<<97>>)), Mem(S_period, JNum(30)), Mem(S_digits, JNum(6)),
           Mem(S_type, JStr(S_TOTP)), Mem(S_algorithm, JStr(S_SHA1))>>)
E_lowerType == JObj(Obj3(JStr(<<116, 111, 116, 112>>), JStr(<<65>>), JStr(<<97>>)))
E_noPeriod ==
    JObj(Obj3(JStr(S_TOTP), JStr(<<65>>), JStr(<<97>>))
         \o <<Mem(S_digits, JNum(6)), Mem(S_algorithm, JStr(S_SHA1))>>)
E_number == JNum(5)

\* documents: arrays of well-formed and other elements, and roots that are no array
Documents ==
    {JArr(<<>>),
     JArr(<<E_totp, E_noSecret>>),
     JArr(<<E_lowerType, E_hotp>>),
     JArr(<<E_steam, E_noPeriod, E_totp>>),
     JArr(<<E_steam, E_number, E_totp>>),
     E_totp,
     E_number}

DocumentTexts == {WriteValue(d) : d \in Documents} \cup {<<91, 49, 44>>}

ImportPassword == <<112>>
SampleIV == [i \in 1..ANDOTP_IV_SIZE |-> (37 * i) % Byte]

Sealed(d) == File(encrypt(ImportPassword, WriteValue(d), EmptyStr, SampleIV).encrypted)

\* the calls made: every document as plain text, some of them encrypted and
\* read with the right, a wrong and an empty password, and mismatches of file
\* and Type
ImportCalls ==
    {<<f, "PlainText", EmptyStr>> :
        f \in {NoFile, File(EmptyStr)} \cup {File(t) : t \in DocumentTexts}}
    \cup {<<Sealed(d), "Encrypted", ImportPassword>> :
            d \in {JArr(<<E_totp, E_noSecret>>), JArr(<<E_steam, E_number, E_totp>>), E_totp}}
    \cup {<<Sealed(JArr(<<E_totp, E_noSecret>>)), "Encrypted", <<113>>>>,
          <<Sealed(JArr(<<E_totp, E_noSecret>>)), "Encrypted", EmptyStr>>,
          <<Sealed(JArr(<<E_totp, E_noSecret>>)), "PlainText", EmptyStr>>,
          <<File(WriteValue(JArr(<<E_totp, E_noSecret>>))), "Encrypted", ImportPassword>>,
          <<File(Fill(ANDOTP_IV_SIZE)), "Encrypted", ImportPassword>>}

\* one importTokens call and its effect on the state
Import(file, type, password) ==
    LET r == importTokens(file, targetList, type, password, assertMode)
    IN  /\ running
        /\ Len(r.target) <= MaxTarget
        /\ targetList' = r.target
        /\ running' = (r.ret # "abort")
        /\ imp' = [called |-> TRUE, file |-> file, type |-> type, password |-> password,
                   pre |-> targetList, ret |-> r.ret, parsed |-> r.parsed, out |-> r.out]

ImportFile ==
    \E call \in ImportCalls :
        /\ Import(call[1], call[2], call[3])
        /\ UNCHANGED <<cryptoVars, tokenVars, assertMode, appTokens, exportFile, exp>>

InitImport == Idle /\ assertMode \in Builds

NextImport == ImportFile

SpecImport == InitImport /\ [][NextImport]_vars

(***************************************************************************)
(* Exporting a token list and importing the exported file.                 *)
(***************************************************************************)
MaxInit == 2           \* longest token list exported

T_totp == [type |-> "TOTP", secret |-> <<65>>, label |-> <<97>>, digits |-> 6,
           period |-> 30, counter |-> 0, algorithm |-> "SHA256"]
T_hotp == [type |-> "HOTP", secret |-> <<66>>, label |-> <<98>>, digits |-> 8,
           period |-> 30, counter |-> 5, algorithm |-> "SHA1"]
T_steam == [type |-> "Steam", secret |-> <<67>>, label |-> EmptyStr, digits |-> 7,
            period |-> 30, counter |-> 0, algorithm |-> "SHA512"]
T_authy == [type |-> "Authy", secret |-> <<68>>, label |-> <<97, 34, 98>>, digits |-> 7,
            period |-> 10, counter |-> 0, algorithm |-> "Invalid"]

SampleTokens == <<T_steam, T_totp, T_authy, T_hotp>>

\* the lists of up to MaxInit tokens cut from the cycle of samples
TokenLists ==
    {[i \in 1..n |-> SampleTokens[((start + i - 2) % Len(SampleTokens)) + 1]] :
        start \in 1..Len(SampleTokens), n \in 0..MaxInit}

\* the calls made: <<Type, password, whether writeFile succeeds>>
ExportCalls ==
    {<<"PlainText", EmptyStr, TRUE>>, <<"PlainText", EmptyStr, FALSE>>,
     <<"Encrypted", ImportPassword, TRUE>>, <<"Encrypted", ImportPassword, FALSE>>,
     <<"Encrypted", EmptyStr, TRUE>>}

ReadModes ==
    {<<"PlainText", EmptyStr>>, <<"Encrypted", ImportPassword>>, <<"Encrypted", <<113>>>>}

ExportTokens ==
    \E call \in ExportCalls :
        LET type     == call[1]
            password == call[2]
            r == exportTokens(exportFile, appTokens, type, password, SampleIV, call[3])
        IN  /\ running
            /\ exportFile' = r.disk
            /\ appTokens' = r.tokens
            /\ exp' = [called |-> TRUE, tokens |-> appTokens, type |-> type,
                       password |-> password, ret |-> r.ret, text |-> r.text]
            /\ imp' = NoCall
            /\ UNCHANGED <<cryptoVars, tokenVars, assertMode, running, targetList>>

ImportExported ==
    \E mode \in ReadModes :
        /\ exp.called /\ exp.ret
        /\ Import(exportFile, mode[1], mode[2])
        /\ UNCHANGED <<cryptoVars, tokenVars, assertMode, appTokens, exportFile, exp>>

InitExport ==
    /\ enc = NoCall /\ dec = NoCall
    /\ tok = [constructed |-> FALSE] /\ obs = [op |-> "none"]
    /\ assertMode \in Builds
    /\ running = TRUE
    /\ appTokens \in TokenLists
    /\ targetList = <<>>
    /\ exportFile = NoFile
    /\ exp = NoCall
    /\ imp = NoCall

NextExport == ExportTokens \/ ImportExported

SpecExport == InitExport /\ [][NextExport]_vars

(***************************************************************************)
(* Claims about importTokens, checked under SpecImport.                    *)
(***************************************************************************)

\* an element the import is to turn into a token: an object with type, secret
\* and label, a type of TOTP, HOTP or STEAM, and the further fields of its type
Importable(elem) ==
    /\ elem.k = "obj"
    /\ ReadsString(elem, S_type) /\ ReadsString(elem, S_secret) /\ ReadsString(elem, S_label)
    /\ \/ /\ GetString(elem, S_type) = S_TOTP
          /\ ReadsUint(elem, S_period) /\ ReadsUint(elem, S_digits)
          /\ ReadsString(elem, S_algorithm)
       \/ /\ GetString(elem, S_type) = S_HOTP
          /\ ReadsUint(elem, S_counter) /\ ReadsUint(elem, S_digits)
          /\ ReadsString(elem, S_algorithm)
       \/ GetString(elem, S_type) = S_STEAM

TokenTypeOf(typeStr) ==
    IF typeStr = S_HOTP THEN "HOTP" ELSE IF typeStr = S_STEAM THEN "Steam" ELSE "TOTP"

\* list holds before followed by one token per element of elems, in order
AppendedFrom(list, before, elems) ==
    /\ Len(list) = Len(before) + Len(elems)
    /\ SubSeq(list, 1, Len(before)) = before
    /\ \A i \in 1..Len(elems) :
          LET t == list[Len(before) + i]
          IN  /\ t.type = TokenTypeOf(GetString(elems[i], S_type))
              /\ t.secret = GetString(elems[i], S_secret)
              /\ t.label = GetString(elems[i], S_label)

\* C1 (as claimed): on a readable, non-empty document whose root is an array,
\* importTokens returns true and appends exactly one token per importable
\* element, in document order; every other element is skipped on its own.
Cex_C1_PerElementSkip ==
    (imp.called /\ imp.parsed /\ ParseStream(imp.out).k = "arr") =>
        /\ imp.ret = "true"
        /\ AppendedFrom(targetList, imp.pre, SelectSeq(ParseStream(imp.out).a, Importable))

\* C2 (as claimed): whenever importTokens returns false, the target list is
\* exactly what it was before the call.
Cex_C2_FalseLeavesTarget ==
    (imp.called /\ imp.ret = "false") => targetList = imp.pre

(***************************************************************************)
(* Claims about exportTokens, checked under SpecExport.                    *)
(***************************************************************************)

\* C8: every object exportTokens writes for a Steam token has type STEAM,
\* digits 5 and algorithm SHA1 whatever the token stores; every object written
\* for another token carries the token's own digit length and algorithm name;
\* the tokens are as they were before the export.
Thm_C8_SteamForced ==
    exp.called =>
        LET json == ParseStream(exp.text)
        IN  /\ json.k = "arr"
            /\ Len(json.a) = Len(exp.tokens)
            /\ appTokens = exp.tokens
            /\ \A i \in 1..Len(exp.tokens) :
                  LET t == exp.tokens[i]
                      o == json.a[i]
                  IN  /\ o.k = "obj"
                      /\ ReadsUint(o, S_digits) /\ ReadsString(o, S_algorithm)
                      /\ ReadsString(o, S_type)
                      /\ IF t.type = "Steam"
                         THEN /\ GetString(o, S_type) = S_STEAM
                              /\ GetUint(o, S_digits) = 5
                              /\ GetString(o, S_algorithm) = S_SHA1
                         ELSE /\ GetString(o, S_type) # S_STEAM
                              /\ GetUint(o, S_digits) = t.digits
                              /\ GetString(o, S_algorithm) = OTPToken_algorithmName(t)

Wit_C8_SteamForced ==
    /\ exp.called /\ exp.ret /\ imp = NoCall
    /\ Len(exp.tokens) = MaxInit
    /\ \E i \in 1..Len(exp.tokens) :
          /\ exp.tokens[i].type = "Steam"
          /\ exp.tokens[i].digits # 5 /\ exp.tokens[i].algorithm # "SHA1"
    /\ \E i \in 1..Len(exp.tokens) : exp.tokens[i].type # "Steam"
    /\ exportFile.exists

\* C10 (as claimed): importing, with the same Type and password, the file
\* exportTokens wrote appends as many tokens as were exported, in the same
\* order, each with the secret and label of its original and the type TOTP,
\* HOTP or Steam of the exported "type" field (Authy as TOTP).
Cex_C10_ExportImportKeepsAll ==
    (/\ exp.called /\ exp.ret
     /\ imp.called /\ imp.type = exp.type /\ imp.password = exp.password) =>
        /\ imp.ret = "true"
        /\ Len(targetList) = Len(imp.pre) + Len(exp.tokens)
        /\ SubSeq(targetList, 1, Len(imp.pre)) = imp.pre
        /\ \A i \in 1..Len(exp.tokens) :
              LET t == targetList[Len(imp.pre) + i]
                  o == exp.tokens[i]
              IN  /\ t.secret = o.secret
                  /\ t.label = o.label
                  /\ t.type = (IF o.type \in {"HOTP", "Steam"} THEN o.type ELSE "TOTP")

=============================================================================
